---- MODULE Spec2Model ----
(***************************************************************************)
(* Model of the conversational-context core of Roo-Cline:                  *)
(*   - the sliding window (src/core/sliding-window/index.ts):              *)
(*     analyzeMessageImportance, truncateHalfConversation;                 *)
(*   - the context memory store (src/core/context/ContextManager.ts);      *)
(*   - the context validators (src/core/context/validation.ts).            *)
(*                                                                         *)
(* A message is a reference to an object of Heap; two positions of a       *)
(* conversation may hold the same object.  A message's text is modelled    *)
(* by what the code reads of it: the set of markers it contains (the       *)
(* substrings analyzeMessageImportance looks for) and the list of matches  *)
(* of the tag regular expression, in order of occurrence.                  *)
(***************************************************************************)
EXTENDS Integers, Sequences, FiniteSets, TLC

VARIABLES
    messages,     \* the conversation handed to truncateHalfConversation
    mgr,          \* "none": no contextManager argument; "manager": one is given
    pc,           \* "start" | "done": position of the truncateHalfConversation call
    truncated,    \* the value truncateHalfConversation returned
    keptPos,      \* positions (in messages) of messagesToKeep, in rank order
    context,      \* ContextManager.context  (ContextMemory)
    config,       \* ContextManager.config
    store,        \* globalState: key -> last value written
    pending,      \* globalState.update calls issued and not yet completed
    snap,         \* the value the last getContext() returned, and what it shares
    call,         \* the most recent call of a store operation and its promise
    writes,       \* keys of the update calls the most recent operation issued
    lastOp,       \* name of the last step taken
    now,          \* Date.now()
    nOps,         \* history: number of operations called so far
    cmdLog,       \* history: commands given to addCommandToHistory, latest first
    fixedBound,   \* history: enabled and the active maxHistoryItems never changed
    recRun,       \* history: the current run of recordPattern calls of one string
    probe,        \* the message handed to analyzeMessageImportance
    importance,   \* the score analyzeMessageImportance returned for probe
    critical,     \* the value extractCriticalContext returned
    summary,      \* the value the last getContextSummary() returned
    validation    \* the validator called last and the value it returned

truncVars == <<messages, mgr, pc, truncated, keptPos>>
pureVars == <<probe, importance, critical, summary, validation>>
vars == <<messages, mgr, pc, truncated, keptPos, context, config, store,
          pending, snap, call, writes, lastOp, now, nOps, cmdLog, fixedBound,
          recRun, probe, importance, critical, summary, validation>>

-----------------------------------------------------------------------------
(* Bounds of the model *)

\* longest conversation handed to truncateHalfConversation
MaxLen == 7
\* scale of the capacity bounds of the configuration the manager is built with
Cap == 1
\* largest occurrences count recordPattern is driven to
MaxOcc == 3
\* number of store operations in one run of Spec
MaxOps == 3
\* largest value of the clock
MaxNow == 2
\* number of addCommandToHistory calls in one run of SpecHistory
MaxCmds == 6
\* longest conversation handed to extractCriticalContext
MaxScan == 3

-----------------------------------------------------------------------------
(* Helpers *)

Min(S) == CHOOSE x \in S : \A y \in S : x <= y
Max(S) == CHOOSE x \in S : \A y \in S : x >= y

SeqsUpTo(S, n) == UNION {[1..k -> S] : k \in 1..n}

Range(s) == {s[i] : i \in 1..Len(s)}

\* Array.prototype.sort(cmp): a stable sort.  cmp[i, j] is the comparator's
\* value on s[i] and s[j]; an element is placed before the first element it
\* sorts strictly before.
SortBy(s, cmp) ==
    LET Insert(acc, x) ==
            LET before == {i \in 1..Len(acc) : cmp[x, acc[i]] < 0}
                k == IF before = {} THEN Len(acc) + 1 ELSE Min(before)
            IN  SubSeq(acc, 1, k - 1) \o <<x>> \o SubSeq(acc, k, Len(acc))
        F[i \in 0..Len(s)] == IF i = 0 THEN <<>> ELSE Insert(F[i - 1], i)
        order == F[Len(s)]
    IN  [k \in 1..Len(s) |-> s[order[k]]]

\* a is a subsequence of b: strictly increasing positions of b hold a, in order
IsSubseq(a, b) ==
    LET F[i \in 0..Len(a), j \in 0..Len(b)] ==
            IF i = 0 THEN TRUE
            ELSE IF j = 0 THEN FALSE
            ELSE F[i, j - 1] \/ (a[i] = b[j] /\ F[i - 1, j - 1])
    IN  F[Len(a), Len(b)]

\* number of positions of s holding x
Count(s, x) == Cardinality({i \in 1..Len(s) : s[i] = x})

-----------------------------------------------------------------------------
(* Messages *)

\* The message objects: the six messages of createTestMessages, then a
\* message with a tool marker, the two messages of the extraction tests and
\* a message that holds the thinking block of the second message twice.
\* technical lists the matches of the technical-details expression (a run
\* of /name segments, or a text between backquotes): the closing tag
\* "</task>" holds the match "/task".  The fourth
\* message's text is "<tool>write_to_file</tool>...", which does not contain
\* the marker "<tool_".
Heap ==
    <<[role |-> "user",
       marks |-> {"<task>", "environment_details"},
       patterns |-> <<"<task>\nImplement feature X\n</task>",
                      "<environment_details>\nProject structure info\n</environment_details>">>,
       technical |-> <<"/task", "/environment_details">>],
      [role |-> "assistant",
       marks |-> {"<thinking>"},
       patterns |-> <<"<thinking>Analyzing requirements</thinking>">>,
       technical |-> <<"/thinking">>],
      [role |-> "user", marks |-> {}, patterns |-> <<>>, technical |-> <<>>],
      [role |-> "assistant",
       marks |-> {},
       patterns |-> <<"<tool>write_to_file</tool>">>,
       technical |-> <<"/tool">>],
      [role |-> "user",
       marks |-> {"<feedback>"},
       patterns |-> <<"<feedback>Looks good, but consider adding tests</feedback>">>,
       technical |-> <<"/feedback">>],
      [role |-> "assistant", marks |-> {}, patterns |-> <<>>, technical |-> <<>>],
      \* an assistant message whose text holds the marker "<tool_" and
      \* nothing either expression matches
      [role |-> "assistant", marks |-> {"<tool_"}, patterns |-> <<>>,
       technical |-> <<>>],
      \* "<pattern>test</pattern>\n<pattern>test</pattern>"
      [role |-> "assistant",
       marks |-> {},
       patterns |-> <<"<pattern>test</pattern>", "<pattern>test</pattern>">>,
       technical |-> <<"/pattern", "/pattern">>],
      \* the message of the technical-details test: one path between
      \* backquotes, written here between apostrophes
      [role |-> "assistant", marks |-> {}, patterns |-> <<>>,
       technical |-> <<"'src/components/Feature.tsx'">>],
      \* "<thinking>Analyzing requirements</thinking>\n" twice
      [role |-> "assistant",
       marks |-> {"<thinking>"},
       patterns |-> <<"<thinking>Analyzing requirements</thinking>",
                      "<thinking>Analyzing requirements</thinking>">>,
       technical |-> <<"/thinking", "/thinking">>]>>

\* the objects conversations are drawn from
InputObjs == {2, 3, 4, 5}

\* the objects extractCriticalContext is given
ExtractObjs == {1, 2, 3, 4, 8, 9}

\* the conversation of createTestMessages
TestMessages == <<1, 2, 3, 4, 5, 6>>

\* the same conversation with a fourth message that holds "<tool_"
ToolMessages == <<1, 2, 3, 7, 5, 6>>

\* a conversation in which the thinking block occurs in three messages, twice
\* in two of them, before and after the feedback message
RepeatMessages == <<1, 2, 10, 5, 10>>

Weight(present, w) == IF present THEN w ELSE 0

analyzeMessageImportanceToolUser(message) ==
    Weight("<task>" \in message.marks, 10)
    + Weight("environment_details" \in message.marks, 8)
    + Weight("<thinking>" \in message.marks, 5)
    + Weight(message.role = "user" /\ "<tool_" \in message.marks, 6)
    + Weight(message.role = "user" /\ "<feedback>" \in message.marks, 7)
    + Weight("<error>" \in message.marks \/ "error:" \in message.marks, 4)
analyzeMessageImportanceErrorTwice(message) ==
    Weight("<task>" \in message.marks, 10)
    + Weight("environment_details" \in message.marks, 8)
    + Weight("<thinking>" \in message.marks, 5)
    + Weight(message.role = "assistant" /\ "<tool_" \in message.marks, 6)
    + Weight(message.role = "user" /\ "<feedback>" \in message.marks, 7)
    + Weight("<error>" \in message.marks, 4)
    + Weight("error:" \in message.marks, 4)
analyzeMessageImportance(message) ==
    Weight("<task>" \in message.marks, 10)
    + Weight("environment_details" \in message.marks, 8)
    + Weight("<thinking>" \in message.marks, 5)
    + Weight(message.role = "assistant" /\ "<tool_" \in message.marks, 6)
    + Weight(message.role = "user" /\ "<feedback>" \in message.marks, 7)
    + Weight("<error>" \in message.marks \/ "error:" \in message.marks, 4)

\* the substrings analyzeMessageImportance looks for
Markers == {"<task>", "environment_details", "<thinking>", "<tool_", "<feedback>",
            "<error>", "error:"}

\* analyzeMessageImportance(probe) is called and returns
AnalyzeCall ==
    /\ ~importance.done
    /\ importance' = [done |-> TRUE, score |-> analyzeMessageImportance(probe)]
    /\ lastOp' = "analyzeMessageImportance"
    /\ UNCHANGED <<truncVars, probe, critical, summary, validation, context, config,
                   store, pending, snap, call, writes, now, nOps, cmdLog, fixedBound,
                   recRun>>

\* the same message with one more marker in its text is analysed
AnalyzeWith(marker) ==
    /\ importance.done
    /\ marker \notin probe.marks
    /\ probe' = [probe EXCEPT !.marks = @ \cup {marker}]
    /\ importance' = [done |-> TRUE, score |-> analyzeMessageImportance(probe')]
    /\ lastOp' = "analyzeMessageImportance"
    /\ UNCHANGED <<truncVars, critical, summary, validation, context, config, store,
                   pending, snap, call, writes, now, nOps, cmdLog, fixedBound, recRun>>

\* messages.slice(1).map(...): one item per non-anchor position
messageScores(msgs) ==
    LET F[i \in 0..(Len(msgs) - 1)] ==
            IF i = 0 THEN <<>>
            ELSE Append(F[i - 1],
                        [pos |-> i + 1,
                         message |-> msgs[i + 1],
                         score |-> analyzeMessageImportance(Heap[msgs[i + 1]])])
    IN  F[Len(msgs) - 1]

ScoreCompareAscending(a, b) == a.score - b.score
\* (a, b) => b.importance.score - a.importance.score
ScoreCompare(a, b) == b.score - a.score

sortedScores(msgs) ==
    LET ms == messageScores(msgs)
    IN  SortBy(ms, [i, j \in 1..Len(ms) |-> ScoreCompare(ms[i], ms[j])])

targetLengthFloor(msgs) == Len(msgs) \div 2
\* Math.ceil(messages.length / 2)
targetLength(msgs) == (Len(msgs) + 1) \div 2

\* messageScores.slice(0, targetLength - 1)
messagesToKeep(msgs) == SubSeq(sortedScores(msgs), 1, targetLength(msgs) - 1)

\* new Map(messages.map((msg, idx) => [msg, idx])): a later entry of the same
\* object replaces the earlier one
messageIndices(msgs, o) == Max({i \in 1..Len(msgs) : msgs[i] = o})

restoreOrderNone(msgs) == messagesToKeep(msgs)
\* messagesToKeep.sort by messageIndices
restoreOrder(msgs) ==
    LET keep == messagesToKeep(msgs)
        IndexCompare(a, b) ==
            messageIndices(msgs, a.message) - messageIndices(msgs, b.message)
    IN  SortBy(keep, [i, j \in 1..Len(keep) |-> IndexCompare(keep[i], keep[j])])

truncateRanked(msgs) ==
    LET scored == [i \in 1..Len(msgs) |->
                      [pos |-> i, message |-> msgs[i],
                       score |-> analyzeMessageImportance(Heap[msgs[i]])]]
        all == SortBy(scored,
                      [i, j \in 1..Len(msgs) |-> ScoreCompare(scored[i], scored[j])])
        top == SubSeq(all, 1, targetLength(msgs))
        ordered == SortBy(top, [i, j \in 1..Len(top) |-> top[i].pos - top[j].pos])
    IN  [i \in 1..Len(ordered) |-> ordered[i].message]
truncateHalfConversation(msgs) ==
    LET keep == restoreOrder(msgs)
    IN  <<msgs[1]>> \o [i \in 1..Len(keep) |-> keep[i].message]

\* [...new Set(list)]: each string once, at its first position
Distinct(list) ==
    LET F[i \in 0..Len(list)] ==
            IF i = 0 THEN <<>>
            ELSE IF list[i] \in Range(F[i - 1]) THEN F[i - 1]
            ELSE Append(F[i - 1], list[i])
    IN  F[Len(list)]

\* the matches of every message of msgs, in order (field: patterns or technical)
AllMatches(msgs, field) ==
    LET F[i \in 0..Len(msgs)] ==
            IF i = 0 THEN <<>> ELSE F[i - 1] \o Heap[msgs[i]][field]
    IN  F[Len(msgs)]

extractCriticalContextAll(msgs) ==
    [patterns |-> AllMatches(msgs, "patterns"),
     technicalDetails |-> AllMatches(msgs, "technical")]
extractCriticalContext(msgs) ==
    [patterns |-> Distinct(AllMatches(msgs, "patterns")),
     technicalDetails |-> Distinct(AllMatches(msgs, "technical"))]

\* extractCriticalContext(messages) is called and returns
ExtractCall ==
    /\ ~critical.done
    /\ critical' = [done |-> TRUE,
                    patterns |-> extractCriticalContext(messages).patterns,
                    technicalDetails |-> extractCriticalContext(messages).technicalDetails]
    /\ lastOp' = "extractCriticalContext"
    /\ UNCHANGED <<truncVars, probe, importance, summary, validation, context, config,
                   store, pending, snap, call, writes, now, nOps, cmdLog, fixedBound,
                   recRun>>

preservedPatternsKept(msgs) ==
    LET ranked == messagesToKeep(msgs)
        Add(acc, ps) ==
            LET G[j \in 0..Len(ps)] ==
                    IF j = 0 THEN acc
                    ELSE IF ps[j] \in Range(G[j - 1]) THEN G[j - 1]
                    ELSE Append(G[j - 1], ps[j])
            IN  G[Len(ps)]
        F[i \in 0..Len(ranked)] ==
            IF i = 0 THEN <<>>
            ELSE IF ranked[i].score >= 5
                 THEN Add(F[i - 1], Heap[ranked[i].message].patterns)
                 ELSE F[i - 1]
    IN  F[Len(ranked)]
preservedPatternsRepeated(msgs) ==
    LET ranked == sortedScores(msgs)
        F[i \in 0..Len(ranked)] ==
            IF i = 0 THEN <<>>
            ELSE IF ranked[i].score >= 5
                 THEN F[i - 1] \o Heap[ranked[i].message].patterns
                 ELSE F[i - 1]
    IN  F[Len(ranked)]
\* preservedPatterns: the matches of the messages scoring 5 or more, in the
\* order of messageScores after its sort, each string once
preservedPatterns(msgs) ==
    LET ranked == sortedScores(msgs)
        Add(acc, ps) ==
            LET G[j \in 0..Len(ps)] ==
                    IF j = 0 THEN acc
                    ELSE IF ps[j] \in Range(G[j - 1]) THEN G[j - 1]
                    ELSE Append(G[j - 1], ps[j])
            IN  G[Len(ps)]
        F[i \in 0..Len(ranked)] ==
            IF i = 0 THEN <<>>
            ELSE IF ranked[i].score >= 5
                 THEN Add(F[i - 1], Heap[ranked[i].message].patterns)
                 ELSE F[i - 1]
    IN  F[Len(ranked)]

-----------------------------------------------------------------------------
(* Configuration *)

\* the strings setMode is given: three modes of the table, a mode without an
\* entry, and a string that names a member every object inherits
Modes == {"code", "architect", "ask", "debug", "constructor"}

\* names modeSettings[name] resolves through the prototype chain when the
\* table has no entry of that name
InheritedKeys ==
    {"constructor", "toString", "valueOf", "hasOwnProperty", "__proto__",
     "isPrototypeOf", "propertyIsEnumerable", "toLocaleString",
     "__defineGetter__", "__defineSetter__", "__lookupGetter__",
     "__lookupSetter__"}

\* the value undefined, as a bound: every comparison with it is false
Undefined == -1

\* length > max
Exceeds(length, max) == max # Undefined /\ length > max

\* DEFAULT_CONFIG
DEFAULT_CONFIG ==
    [enabled |-> TRUE,
     currentMode |-> "code",
     modeSettings |->
        [code |-> [maxHistoryItems |-> 50, maxPatterns |-> 20, maxMistakes |-> 10],
         architect |-> [maxHistoryItems |-> 30, maxPatterns |-> 15, maxMistakes |-> 5],
         ask |-> [maxHistoryItems |-> 20, maxPatterns |-> 10, maxMistakes |-> 3]],
     maxHistoryItems |-> 50,
     maxPatterns |-> 20,
     maxMistakes |-> 10]

\* The mode table the manager is constructed with: the shape of the default
\* table (code >= architect >= ask >= 1), scaled down to Cap.
ModeSettingsInput ==
    [code |-> [maxHistoryItems |-> Cap + 2, maxPatterns |-> Cap + 1, maxMistakes |-> Cap + 1],
     architect |-> [maxHistoryItems |-> Cap + 1, maxPatterns |-> Cap + 1, maxMistakes |-> Cap],
     ask |-> [maxHistoryItems |-> Cap, maxPatterns |-> Cap, maxMistakes |-> Cap]]

\* a table updateSettings may install later: every mode at the smallest bound
TightModeSettings ==
    [code |-> [maxHistoryItems |-> Cap, maxPatterns |-> Cap, maxMistakes |-> Cap],
     architect |-> [maxHistoryItems |-> Cap, maxPatterns |-> Cap, maxMistakes |-> Cap],
     ask |-> [maxHistoryItems |-> Cap, maxPatterns |-> Cap, maxMistakes |-> Cap]]

\* the ContextConfig argument of the constructor
ConfigInput(enabled, mode) ==
    [enabled |-> enabled,
     currentMode |-> mode,
     modeSettings |-> ModeSettingsInput,
     maxHistoryItems |-> Cap + 1,
     maxPatterns |-> Cap + 2,
     maxMistakes |-> Cap]

\* { ...a, ...b }
Merge(a, b) ==
    [k \in (DOMAIN a) \cup (DOMAIN b) |-> IF k \in DOMAIN b THEN b[k] ELSE a[k]]

\* the constructor's this.config
Construct(cfg) == Merge(DEFAULT_CONFIG, cfg)

\* getModeSettings(): modeSettings[currentMode] when that value is truthy,
\* else the scalar bounds.  An inherited member is a function or an object
\* that has none of the three bounds.
getModeSettings(cfg) ==
    IF cfg.currentMode \in DOMAIN cfg.modeSettings
    THEN cfg.modeSettings[cfg.currentMode]
    ELSE IF cfg.currentMode \in InheritedKeys
    THEN [maxHistoryItems |-> Undefined,
          maxPatterns |-> Undefined,
          maxMistakes |-> Undefined]
    ELSE [maxHistoryItems |-> cfg.maxHistoryItems,
          maxPatterns |-> cfg.maxPatterns,
          maxMistakes |-> cfg.maxMistakes]

isEnabledAlways(cfg) == TRUE
isEnabled(cfg) == cfg.enabled

\* createEmptyContext(): start and last are its two reads of the clock
createEmptyContext(start, last) ==
    [task |-> [id |-> "", scope |-> "", stage |-> "",
               progress |-> [completed |-> <<>>, pending |-> <<>>],
               startTime |-> start, lastUpdateTime |-> last],
     technical |-> [patterns |-> <<>>,
                    projectStructure |-> [root |-> "", mainFiles |-> <<>>,
                                          dependencies |-> <<>>],
                    lastAnalyzedFiles |-> <<>>],
     user |-> [preferences |-> <<>>,
               history |-> [recentCommands |-> <<>>,
                            commonPatterns |-> <<>>,
                            mistakes |-> <<>>]]]

\* getSettings()
getSettings(cfg) ==
    [enabled |-> cfg.enabled,
     currentMode |-> cfg.currentMode,
     modeSettings |-> cfg.modeSettings]

\* the record updateSettings persists
settingsRecord(cfg) == [enabled |-> cfg.enabled, modeSettings |-> cfg.modeSettings]

-----------------------------------------------------------------------------
(* In-memory steps of the recording operations *)

\* array.unshift(entry), then pop() when longer than max
unshiftUncapped(list, entry, max) == <<entry>> \o list
unshiftCapped(list, entry, max) ==
    LET grown == <<entry>> \o list
    IN  IF Exceeds(Len(grown), max) THEN SubSeq(grown, 1, Len(grown) - 1) ELSE grown

OccCompareAscending(a, b) == a.occurrences - b.occurrences
\* (a, b) => b.occurrences - a.occurrences
OccCompare(a, b) == b.occurrences - a.occurrences

\* the body of recordPattern on commonPatterns: find, increment or push,
\* sort, pop when longer than maxPatterns
recordPatternMem(cp, pattern, max) ==
    LET found == {i \in 1..Len(cp) : cp[i].pattern = pattern}
        changed == IF found # {}
                   THEN [cp EXCEPT ![Min(found)].occurrences = @ + 1]
                   ELSE Append(cp, [pattern |-> pattern, occurrences |-> 1])
        sorted == SortBy(changed, [i, j \in 1..Len(changed) |->
                                      OccCompare(changed[i], changed[j])])
    IN  IF Exceeds(Len(sorted), max) THEN SubSeq(sorted, 1, Len(sorted) - 1)
        ELSE sorted

recordAllFromStart(cp, ps, max) ==
    IF Len(ps) = 0 THEN cp ELSE recordPatternMem(cp, ps[Len(ps)], max)
\* recordPattern applied to each pattern of ps in turn
recordAll(cp, ps, max) ==
    LET F[i \in 0..Len(ps)] ==
            IF i = 0 THEN cp ELSE recordPatternMem(F[i - 1], ps[i], max)
    IN  F[Len(ps)]

Occurrences(cp, pattern) ==
    LET found == {i \in 1..Len(cp) : cp[i].pattern = pattern}
    IN  IF found = {} THEN 0 ELSE cp[Min(found)].occurrences

-----------------------------------------------------------------------------
(* The store operations.  An operation updates the in-memory state and     *)
(* issues its globalState.update call in one step; the caller, suspended   *)
(* in its await, is resumed by the step that completes the write.          *)

NoRun == [pattern |-> "", n |-> 0, fresh |-> FALSE]

\* the caller is not suspended in an await
Ready == call.state # "pending"

updateStateCopiedKey(op, key, value) ==
    /\ pending' = Append(pending,
                         [key |-> IF key = "mistakeHistory" THEN "commandHistory" ELSE key,
                          value |-> value, awaited |-> TRUE])
    /\ writes' = <<IF key = "mistakeHistory" THEN "commandHistory" ELSE key>>
    /\ call' = [op |-> op, state |-> "pending"]
\* await this.updateState(key, value)
updateState(op, key, value) ==
    /\ pending' = Append(pending, [key |-> key, value |-> value, awaited |-> TRUE])
    /\ writes' = <<key>>
    /\ call' = [op |-> op, state |-> "pending"]

\* if (!this.isEnabled()) return
ReturnDisabled(op) ==
    /\ context' = context
    /\ pending' = pending
    /\ writes' = <<>>
    /\ call' = [op |-> op, state |-> "resolved"]

\* what a replaced task object leaves in a snapshot taken before
KeepOldTask ==
    snap' = IF snap.taken /\ snap.taskShared
            THEN [snap EXCEPT !.taskShared = FALSE, !.task = context.task]
            ELSE snap

KeepOldTechnical ==
    snap' = IF snap.taken /\ snap.technicalShared
            THEN [snap EXCEPT !.technicalShared = FALSE, !.technical = context.technical]
            ELSE snap

\* the values a second Date.now() of one statement may return: the clock
\* stands still between the two reads, or has moved on by one step
SecondRead == {t \in {now, now + 1} : t <= MaxNow}

\* startTime and lastUpdateTime are two reads of the clock
initializeTaskContext(taskId, scope) ==
    /\ Ready
    /\ \E last \in SecondRead :
          /\ context' = [context EXCEPT !.task =
                            [id |-> taskId, scope |-> scope, stage |-> "initializing",
                             progress |-> [completed |-> <<>>, pending |-> <<>>],
                             startTime |-> now, lastUpdateTime |-> last]]
          /\ now' = last
    /\ KeepOldTask
    /\ updateState("initializeTaskContext", "taskContext", context'.task)
    /\ lastOp' = "initializeTaskContext"
    /\ recRun' = NoRun
    /\ UNCHANGED <<truncVars, pureVars, config, store, cmdLog, fixedBound>>

updateTaskProgressNonEmpty(stage, completed, pend) ==
    /\ Ready
    /\ context' = [context EXCEPT
                      !.task.stage = stage,
                      !.task.progress.completed =
                          IF completed.given /\ completed.value # <<>>
                          THEN completed.value ELSE @,
                      !.task.progress.pending =
                          IF pend.given /\ pend.value # <<>> THEN pend.value ELSE @,
                      !.task.lastUpdateTime = now]
    /\ updateState("updateTaskProgress", "taskContext", context'.task)
    /\ lastOp' = "updateTaskProgress"
    /\ recRun' = NoRun
    /\ UNCHANGED <<truncVars, pureVars, config, store, snap, now, cmdLog, fixedBound>>
\* completed and pending are optional: [given |-> FALSE] is an omitted argument
updateTaskProgress(stage, completed, pend) ==
    /\ Ready
    /\ context' = [context EXCEPT
                      !.task.stage = stage,
                      !.task.progress.completed =
                          IF completed.given THEN completed.value ELSE @,
                      !.task.progress.pending =
                          IF pend.given THEN pend.value ELSE @,
                      !.task.lastUpdateTime = now]
    /\ updateState("updateTaskProgress", "taskContext", context'.task)
    /\ lastOp' = "updateTaskProgress"
    /\ recRun' = NoRun
    /\ UNCHANGED <<truncVars, pureVars, config, store, snap, now, cmdLog, fixedBound>>

updateTechnicalContextLate(updates) ==
    /\ Ready
    /\ context' = context
    /\ snap' = snap
    /\ updateState("updateTechnicalContext", "technicalContext",
                   Merge(context.technical, updates))
    /\ lastOp' = "updateTechnicalContext"
    /\ recRun' = NoRun
    /\ UNCHANGED <<truncVars, pureVars, config, store, now, cmdLog, fixedBound>>
updateTechnicalContext(updates) ==
    /\ Ready
    /\ context' = [context EXCEPT !.technical = Merge(@, updates)]
    /\ KeepOldTechnical
    /\ updateState("updateTechnicalContext", "technicalContext", context'.technical)
    /\ lastOp' = "updateTechnicalContext"
    /\ recRun' = NoRun
    /\ UNCHANGED <<truncVars, pureVars, config, store, now, cmdLog, fixedBound>>

updateUserPreferences(preferences) ==
    /\ Ready
    /\ context' = [context EXCEPT !.user.preferences = Merge(@, preferences)]
    /\ updateState("updateUserPreferences", "userPreferences",
                   context'.user.preferences)
    /\ lastOp' = "updateUserPreferences"
    /\ recRun' = NoRun
    /\ UNCHANGED <<truncVars, pureVars, config, store, snap, now, cmdLog, fixedBound>>

addCommandToHistory(command) ==
    /\ Ready
    /\ IF ~isEnabled(config)
       THEN ReturnDisabled("addCommandToHistory")
       ELSE /\ context' = [context EXCEPT !.user.history.recentCommands =
                              unshiftCapped(@, [command |-> command, timestamp |-> now],
                                            getModeSettings(config).maxHistoryItems)]
            /\ updateState("addCommandToHistory", "commandHistory",
                           context'.user.history.recentCommands)
    /\ lastOp' = "addCommandToHistory"
    /\ cmdLog' = <<command>> \o cmdLog
    /\ recRun' = NoRun
    /\ UNCHANGED <<truncVars, pureVars, config, store, snap, now, fixedBound>>

recordPattern(pattern) ==
    /\ Ready
    /\ Occurrences(context.user.history.commonPatterns, pattern) < MaxOcc
    /\ IF ~isEnabled(config)
       THEN ReturnDisabled("recordPattern") /\ recRun' = NoRun
       ELSE /\ context' = [context EXCEPT !.user.history.commonPatterns =
                              recordPatternMem(@, pattern,
                                               getModeSettings(config).maxPatterns)]
            /\ updateState("recordPattern", "patternHistory",
                           context'.user.history.commonPatterns)
            /\ recRun' =
                 IF recRun.n > 0 /\ recRun.pattern = pattern
                 THEN [recRun EXCEPT !.n = IF @ < MaxOcc THEN @ + 1 ELSE @]
                 ELSE [pattern |-> pattern, n |-> 1,
                       fresh |-> Occurrences(context.user.history.commonPatterns,
                                             pattern) = 0]
    /\ lastOp' = "recordPattern"
    /\ UNCHANGED <<truncVars, pureVars, config, store, snap, now, cmdLog, fixedBound>>

recordMistake(type, description) ==
    /\ Ready
    /\ IF ~isEnabled(config)
       THEN ReturnDisabled("recordMistake")
       ELSE /\ context' = [context EXCEPT !.user.history.mistakes =
                              unshiftCapped(@, [type |-> type, description |-> description,
                                                timestamp |-> now],
                                            getModeSettings(config).maxMistakes)]
            /\ updateState("recordMistake", "mistakeHistory",
                           context'.user.history.mistakes)
    /\ lastOp' = "recordMistake"
    /\ recRun' = NoRun
    /\ UNCHANGED <<truncVars, pureVars, config, store, snap, now, cmdLog, fixedBound>>

\* updateSettings, called as op (updateSettings itself, or setMode)
applySettings(op, settings) ==
    /\ Ready
    /\ config' = Merge(config, settings)
    /\ updateState(op, "contextSettings", settingsRecord(config'))
    /\ lastOp' = op
    /\ fixedBound' = (fixedBound /\ config'.enabled
                      /\ getModeSettings(config').maxHistoryItems
                         = getModeSettings(config).maxHistoryItems)
    /\ recRun' = NoRun
    /\ UNCHANGED <<truncVars, pureVars, context, store, snap, now, cmdLog>>

updateSettings(settings) == applySettings("updateSettings", settings)

\* this.config.currentMode = mode; await this.updateSettings({ currentMode: mode })
setMode(mode) == applySettings("setMode", [currentMode |-> mode])

CompleteWriteSwallow(i, ok) ==
    /\ i \in 1..Len(pending)
    /\ store' = IF ok THEN (pending[i].key :> pending[i].value) @@ store ELSE store
    /\ pending' = SubSeq(pending, 1, i - 1) \o SubSeq(pending, i + 1, Len(pending))
    /\ call' = IF pending[i].awaited THEN [call EXCEPT !.state = "resolved"] ELSE call
    /\ lastOp' = IF pending[i].awaited THEN "resume" ELSE "completeWrite"
    /\ UNCHANGED <<truncVars, pureVars, context, config, snap, writes, now, nOps, cmdLog,
                   fixedBound, recRun>>
\* globalState.update completes: the value is stored, or the write fails
CompleteWrite(i, ok) ==
    /\ i \in 1..Len(pending)
    /\ store' = IF ok THEN (pending[i].key :> pending[i].value) @@ store ELSE store
    /\ pending' = SubSeq(pending, 1, i - 1) \o SubSeq(pending, i + 1, Len(pending))
    /\ call' = IF pending[i].awaited
               THEN [call EXCEPT !.state = IF ok THEN "resolved" ELSE "rejected"]
               ELSE call
    /\ lastOp' = IF pending[i].awaited THEN "resume" ELSE "completeWrite"
    /\ UNCHANGED <<truncVars, pureVars, context, config, snap, writes, now, nOps, cmdLog,
                   fixedBound, recRun>>

WriteSucceeds == \E i \in 1..Len(pending) : CompleteWrite(i, TRUE)
WriteFails == \E i \in 1..Len(pending) : CompleteWrite(i, FALSE)

Tick ==
    /\ now < MaxNow
    /\ now' = now + 1
    /\ lastOp' = "tick"
    /\ UNCHANGED <<truncVars, pureVars, context, config, store, pending, snap, call, writes,
                   nOps, cmdLog, fixedBound, recRun>>

-----------------------------------------------------------------------------
(* truncateHalfConversation as a step: the value it returns and, with a    *)
(* manager, the recordPattern calls it makes without awaiting them.  Each  *)
(* call runs up to its globalState.update before the next one starts.      *)

TruncateCall ==
    /\ Ready
    /\ truncated' = truncateHalfConversation(messages)
    /\ keptPos' = [i \in 1..Len(messagesToKeep(messages)) |->
                      messagesToKeep(messages)[i].pos]
    /\ pc' = "done"
    /\ IF mgr = "manager" /\ isEnabled(config)
       THEN LET ps == preservedPatterns(messages)
                max == getModeSettings(config).maxPatterns
                cp == context.user.history.commonPatterns
            IN  /\ \A i \in 1..Len(ps) : Occurrences(cp, ps[i]) < MaxOcc
                /\ context' = [context EXCEPT !.user.history.commonPatterns =
                                  recordAll(cp, ps, max)]
                /\ pending' = pending \o
                      [i \in 1..Len(ps) |->
                          [key |-> "patternHistory",
                           value |-> recordAll(cp, SubSeq(ps, 1, i), max),
                           awaited |-> FALSE]]
                /\ writes' = [i \in 1..Len(ps) |-> "patternHistory"]
       ELSE /\ context' = context
            /\ pending' = pending
            /\ writes' = <<>>
    /\ call' = [op |-> "truncateHalfConversation", state |-> "returned"]
    /\ lastOp' = "truncateHalfConversation"
    /\ recRun' = NoRun
    /\ UNCHANGED <<messages, mgr, config, store, snap, now, cmdLog, fixedBound,
                   pureVars>>

-----------------------------------------------------------------------------
(* getContext and its caller.  { ...this.context } copies the three        *)
(* top-level references: the returned task and technical objects are the   *)
(* store's own until the store replaces them, the user object always.      *)

NoSnapshot(ctx) ==
    [taken |-> FALSE, taskShared |-> FALSE, task |-> ctx.task,
     technicalShared |-> FALSE, technical |-> ctx.technical]

\* return { ...this.context }
readContext ==
    /\ snap' = [taken |-> TRUE, taskShared |-> TRUE, task |-> context.task,
                technicalShared |-> TRUE, technical |-> context.technical]
    /\ lastOp' = "getContext"
    /\ UNCHANGED <<truncVars, pureVars, context, config, store, pending, call, writes, now,
                   cmdLog, fixedBound, recRun>>

\* getContext() called by the caller of the operations, between two of them
getContext == Ready /\ readContext

\* technical.language || "Not set"
OrNotSet(technical, field) ==
    IF field \in DOMAIN technical /\ technical[field] # "" THEN technical[field]
    ELSE "Not set"

\* the values getContextSummary() formats into its text, in its order
ContextSummary(ctx, cfg) ==
    LET cp == ctx.user.history.commonPatterns
        top == SubSeq(cp, 1, Min({3, Len(cp)}))
    IN  [scope |-> ctx.task.scope,
         stage |-> ctx.task.stage,
         language |-> OrNotSet(ctx.technical, "language"),
         framework |-> OrNotSet(ctx.technical, "framework"),
         patterns |-> [i \in 1..Len(top) |-> top[i].pattern],
         completed |-> Len(ctx.task.progress.completed),
         pending |-> Len(ctx.task.progress.pending),
         enabled |-> isEnabled(cfg),
         mode |-> cfg.currentMode]

\* getContextSummary(), called at any moment, also while the caller of an
\* operation is suspended in its await
getContextSummary ==
    /\ summary' = [taken |-> TRUE, value |-> ContextSummary(context, config)]
    /\ lastOp' = "getContextSummary"
    /\ UNCHANGED <<truncVars, probe, importance, critical, validation, context, config,
                   store, pending, snap, call, writes, now, cmdLog, fixedBound, recRun>>

\* the ContextMemory the holder of the snapshot reads through it
SnapValue ==
    [task |-> IF snap.taskShared THEN context.task ELSE snap.task,
     technical |-> IF snap.technicalShared THEN context.technical ELSE snap.technical,
     user |-> context.user]

\* caller: returned.user.history.commonPatterns.push({ pattern, occurrences: 1 })
CallerPushPattern(pattern) ==
    /\ Ready
    /\ snap.taken
    /\ Len(context.user.history.commonPatterns) < Cap + 3
    /\ context' = [context EXCEPT !.user.history.commonPatterns =
                      Append(@, [pattern |-> pattern, occurrences |-> 1])]
    /\ lastOp' = "callerPushPattern"
    /\ UNCHANGED <<truncVars, pureVars, config, store, pending, snap, call, writes, now,
                   cmdLog, fixedBound, recRun>>

\* caller: returned.task.progress.completed = steps
CallerEditProgress(steps) ==
    /\ Ready
    /\ snap.taken
    /\ IF snap.taskShared
       THEN /\ context' = [context EXCEPT !.task.progress.completed = steps]
            /\ snap' = snap
       ELSE /\ snap' = [snap EXCEPT !.task.progress.completed = steps]
            /\ context' = context
    /\ lastOp' = "callerEditProgress"
    /\ UNCHANGED <<truncVars, pureVars, config, store, pending, call, writes, now,
                   cmdLog, fixedBound, recRun>>

-----------------------------------------------------------------------------
(* The validators (validation.ts).  Time is counted in steps of thirty      *)
(* minutes: Date.now() is the variable now.                                *)

\* 30 * 60 * 1000 milliseconds
StaleAfter == 1

\* contextValidationRules, in the order of Object.entries
RuleNames == <<"taskInitialization", "taskProgress", "technicalContext", "recentActivity">>

RuleValid(rule, ctx, t) ==
    CASE rule = "taskInitialization" -> ctx.task.id # "" /\ ctx.task.scope # ""
      [] rule = "taskProgress" ->
            Len(ctx.task.progress.completed) > 0 \/ Len(ctx.task.progress.pending) > 0
      [] rule = "technicalContext" -> ctx.technical.projectStructure.root # ""
      [] rule = "recentActivity" -> t - ctx.task.lastUpdateTime < StaleAfter

RuleMessage(rule) ==
    CASE rule = "taskInitialization" -> "Task must have both ID and scope defined"
      [] rule = "taskProgress" -> "Task should have either completed or pending steps"
      [] rule = "technicalContext" -> "Project root path must be defined"
      [] rule = "recentActivity" -> "Context may be stale (no updates in last 30 minutes)"

RuleSeverity(rule) ==
    IF rule \in {"taskInitialization", "technicalContext"} THEN "error" ELSE "warning"

validateContextCompletenessStrict(ctx, t) ==
    LET Failed(rule) == ~RuleValid(rule, ctx, t)
        failing == SelectSeq(RuleNames, Failed)
        missingFields == [i \in 1..Len(failing) |-> <<failing[i], RuleMessage(failing[i])>>]
    IN  [isValid |-> Len(missingFields) = 0,
         missingFields |-> missingFields,
         warnings |-> <<>>]
\* validateContextCompleteness(context), called at time t; a missing field
\* `${key}: ${message}` is the pair <<key, message>>
validateContextCompleteness(ctx, t) ==
    LET FailedError(rule) == ~RuleValid(rule, ctx, t) /\ RuleSeverity(rule) = "error"
        FailedWarning(rule) == ~RuleValid(rule, ctx, t) /\ RuleSeverity(rule) = "warning"
        errors == SelectSeq(RuleNames, FailedError)
        warns == SelectSeq(RuleNames, FailedWarning)
        missingFields == [i \in 1..Len(errors) |-> <<errors[i], RuleMessage(errors[i])>>]
    IN  [isValid |-> Len(missingFields) = 0,
         missingFields |-> missingFields,
         warnings |-> [i \in 1..Len(warns) |-> RuleMessage(warns[i])]]

\* the fields validateForToolUse requires, in the order it tests them
ToolUseFields == <<"task.id", "task.scope", "task.stage",
                   "technical.projectStructure.root">>

\* the fields validateForCompletion requires
CompletionFields == <<"task.id", "task.scope">>

FieldValue(ctx, field) ==
    CASE field = "task.id" -> ctx.task.id
      [] field = "task.scope" -> ctx.task.scope
      [] field = "task.stage" -> ctx.task.stage
      [] field = "technical.projectStructure.root" -> ctx.technical.projectStructure.root

\* if (cond) warnings.push(message)
WarnIf(cond, message) == IF cond THEN <<message>> ELSE <<>>

validateForToolUseNoWarnings(ctx, t) ==
    LET Empty(field) == FieldValue(ctx, field) = ""
        missingFields == SelectSeq(ToolUseFields, Empty)
        warnings ==
            WarnIf(Len(ctx.task.progress.pending) = 0,
                   "No pending tasks defined - tool use may lack proper context")
            \o WarnIf(t - ctx.task.lastUpdateTime > StaleAfter,
                      "Context may be stale (no updates in last 30 minutes)")
    IN  [isValid |-> Len(missingFields) = 0 /\ Len(warnings) = 0,
         missingFields |-> missingFields,
         warnings |-> warnings]
\* validateForToolUse(context), called at time t
validateForToolUse(ctx, t) ==
    LET Empty(field) == FieldValue(ctx, field) = ""
        missingFields == SelectSeq(ToolUseFields, Empty)
        warnings ==
            WarnIf(Len(ctx.task.progress.pending) = 0,
                   "No pending tasks defined - tool use may lack proper context")
            \o WarnIf(t - ctx.task.lastUpdateTime > StaleAfter,
                      "Context may be stale (no updates in last 30 minutes)")
    IN  [isValid |-> Len(missingFields) = 0,
         missingFields |-> missingFields,
         warnings |-> warnings]

\* validateForCompletion(context)
validateForCompletion(ctx) ==
    LET Empty(field) == FieldValue(ctx, field) = ""
        missingFields == SelectSeq(CompletionFields, Empty)
        warnings ==
            WarnIf(Len(ctx.task.progress.pending) > 0,
                   "Task has pending steps that haven't been completed")
            \o WarnIf(Len(ctx.task.progress.completed) = 0,
                      "No completed steps recorded for this task")
    IN  [isValid |-> Len(missingFields) = 0,
         missingFields |-> missingFields,
         warnings |-> warnings]

ValidatorNames == {"validateForToolUse", "validateForCompletion",
                   "validateContextCompleteness"}

RunValidator(validator, ctx, t) ==
    CASE validator = "validateForToolUse" -> validateForToolUse(ctx, t)
      [] validator = "validateForCompletion" -> validateForCompletion(ctx)
      [] validator = "validateContextCompleteness" -> validateContextCompleteness(ctx, t)

\* contextValidators[validator](getContext()), called between two operations
ValidateCall(validator) ==
    /\ Ready
    /\ validation' = [validator |-> validator,
                      result |-> RunValidator(validator, context, now)]
    /\ lastOp' = validator
    /\ UNCHANGED <<truncVars, probe, importance, critical, summary, context, config,
                   store, pending, snap, call, writes, now, cmdLog, fixedBound, recRun>>

-----------------------------------------------------------------------------
(* Inputs *)

PatternInputs == {"component-pattern", "hook-pattern",
                  "<thinking>Analyzing requirements</thinking>"}
CommandInputs == {"git commit -m 'test'", "npm test"}
MistakeInputs == {<<"syntax", "missing brace">>, <<"logic", "off by one">>}
MistakeSeq == <<<<"syntax", "missing brace">>, <<"logic", "off by one">>>>
TaskIdInputs == {"", "test-task"}
ScopeInputs == {"", "test scope"}
StageInputs == {"", "in_progress"}
Omitted == [given |-> FALSE, value |-> <<>>]
Given(list) == [given |-> TRUE, value |-> list]
StepInputs == {Omitted, Given(<<>>), Given(<<"step 1">>)}
PendingInputs == {Omitted, Given(<<>>), Given(<<"step 2">>)}
TechnicalInputs ==
    <<[language |-> "typescript"],
      [projectStructure |-> [root |-> "/test/project", mainFiles |-> <<"index.ts">>,
                             dependencies |-> <<>>]],
      [projectStructure |-> [root |-> "", mainFiles |-> <<>>, dependencies |-> <<>>]]>>
PreferenceInputs == <<[language |-> "english"], [style |-> "functional"]>>

-----------------------------------------------------------------------------
(* Specifications *)

\* the clock when the constructor returns, its first read of the clock being
\* 0: the clock stood still between its two reads, or moved on by one step
AfterConstruction == {0, 1}

\* the state after new ContextManager(ConfigInput(enabled, mode))
Constructed(enabled, mode) ==
    /\ config = Construct(ConfigInput(enabled, mode))
    /\ context = createEmptyContext(0, now)
    /\ snap = NoSnapshot(createEmptyContext(0, now))
    /\ store = <<>>
    /\ pending = <<>>
    /\ call = [op |-> "constructor", state |-> "returned"]
    /\ writes = <<>>
    /\ lastOp = "constructor"
    /\ nOps = 0
    /\ cmdLog = <<>>
    /\ fixedBound = enabled
    /\ recRun = NoRun

\* no message analysed and nothing extracted yet
NoProbe == [role |-> "user", marks |-> {}]
NoImportance == [done |-> FALSE, score |-> 0]
NoCritical == [done |-> FALSE, patterns |-> <<>>, technicalDetails |-> <<>>]
NoSummary == [taken |-> FALSE]
NoValidation == [validator |-> "none"]

NoTruncation(msgs, m) ==
    /\ messages = msgs
    /\ mgr = m
    /\ pc = "start"
    /\ truncated = <<>>
    /\ keptPos = <<>>
    /\ probe = NoProbe
    /\ importance = NoImportance
    /\ critical = NoCritical
    /\ summary = NoSummary
    /\ validation = NoValidation

\* Spec: every operation of the store, at most MaxOps calls in a run; the
\* clock may have moved between the two reads of the constructor; setMode is
\* given a mode of the table, one without an entry and an inherited name
Init ==
    /\ now \in AfterConstruction
    /\ \E enabled \in BOOLEAN, mode \in {"code", "ask"} : Constructed(enabled, mode)
    /\ NoTruncation(TestMessages, "manager")

\* a call counted against the run's MaxOps
Counted(Op) == nOps < MaxOps /\ nOps' = nOps + 1 /\ Op
\* a call in a specification that does not limit the number of calls
Free(Op) == nOps' = nOps /\ Op

Next ==
    \/ Counted(initializeTaskContext("test-task", "test scope"))
    \/ \E completed \in {Omitted, Given(<<"step 1">>)} :
          Counted(updateTaskProgress("in_progress", completed, Omitted))
    \/ \E i \in 1..2 : Counted(updateTechnicalContext(TechnicalInputs[i]))
    \/ Counted(updateUserPreferences(PreferenceInputs[1]))
    \/ \E command \in {"npm test"} : Counted(addCommandToHistory(command))
    \/ \E pattern \in {"component-pattern", "hook-pattern"} : Counted(recordPattern(pattern))
    \/ Counted(recordMistake("syntax", "missing brace"))
    \/ \E mode \in {"ask", "debug", "constructor"} : Counted(setMode(mode))
    \/ \E enabled \in BOOLEAN : Counted(updateSettings([enabled |-> enabled]))
    \/ Counted(updateSettings([modeSettings |-> TightModeSettings]))
    \/ Counted(TruncateCall)
    \/ WriteSucceeds
    \/ WriteFails

Spec == Init /\ [][Next]_vars

\* SpecTrunc: one call of truncateHalfConversation on any conversation of at
\* most MaxLen messages, without a manager or with one, enabled or disabled
InitTrunc ==
    /\ now = 0
    /\ \E msgs \in SeqsUpTo(InputObjs, MaxLen)
                    \cup {TestMessages, ToolMessages, RepeatMessages},
          m \in {"none", "manager"} :
          NoTruncation(msgs, m)
    /\ \E enabled \in BOOLEAN :
          /\ mgr = "none" => enabled
          /\ Constructed(enabled, "code")

NextTrunc ==
    \/ pc = "start" /\ Free(TruncateCall)
    \/ WriteSucceeds
    \/ WriteFails

SpecTrunc == InitTrunc /\ [][NextTrunc]_vars

\* SpecHistory: the command history under any number of mode switches and
\* enable/disable, with a store whose writes succeed; at most MaxCmds calls
\* of addCommandToHistory
InitHistory ==
    /\ now = 0
    /\ \E enabled \in BOOLEAN, mode \in Modes : Constructed(enabled, mode)
    /\ NoTruncation(TestMessages, "manager")

NextHistory ==
    \/ \E command \in CommandInputs :
          Len(cmdLog) < MaxCmds /\ Free(addCommandToHistory(command))
    \/ \E mode \in Modes : Free(setMode(mode))
    \/ \E enabled \in BOOLEAN : Free(updateSettings([enabled |-> enabled]))
    \/ WriteSucceeds

SpecHistory == InitHistory /\ [][NextHistory]_vars

\* SpecAlias: a caller that keeps the value getContext returned and writes
\* to it, between operations of the store; at most MaxOps calls in a run
InitAlias ==
    /\ now \in AfterConstruction
    /\ Constructed(TRUE, "code")
    /\ NoTruncation(TestMessages, "manager")

NextAlias ==
    \/ Counted(getContext)
    \/ \E pattern \in PatternInputs : Counted(CallerPushPattern(pattern))
    \/ \E steps \in {<<>>, <<"step 1">>} : Counted(CallerEditProgress(steps))
    \/ \E id \in TaskIdInputs, scope \in ScopeInputs :
          Counted(initializeTaskContext(id, scope))
    \/ \E stage \in StageInputs, completed \in StepInputs :
          Counted(updateTaskProgress(stage, completed, Omitted))
    \/ \E i \in 1..Len(TechnicalInputs) :
          Counted(updateTechnicalContext(TechnicalInputs[i]))
    \/ \E pattern \in PatternInputs : Counted(recordPattern(pattern))
    \/ WriteSucceeds
    \/ Tick

SpecAlias == InitAlias /\ [][NextAlias]_vars

\* SpecTask: the task and technical operations, the validators' inputs
InitTask ==
    /\ now \in AfterConstruction
    /\ Constructed(TRUE, "code")
    /\ NoTruncation(TestMessages, "manager")

NextTask ==
    \/ \E id \in TaskIdInputs, scope \in ScopeInputs :
          Counted(initializeTaskContext(id, scope))
    \/ \E stage \in StageInputs, completed \in StepInputs, pend \in PendingInputs :
          Counted(updateTaskProgress(stage, completed, pend))
    \/ \E i \in 1..Len(TechnicalInputs) :
          Counted(updateTechnicalContext(TechnicalInputs[i]))
    \/ Counted(recordMistake("syntax", "missing brace"))
    \/ Counted(setMode("ask"))
    \/ WriteSucceeds
    \/ Tick

SpecTask == InitTask /\ [][NextTask]_vars

\* SpecScore: analyzeMessageImportance on every role and set of markers
InitScore ==
    /\ now = 0
    /\ Constructed(TRUE, "code")
    /\ messages = TestMessages /\ mgr = "none" /\ pc = "start"
    /\ truncated = <<>> /\ keptPos = <<>>
    /\ probe \in [role : {"user", "assistant"}, marks : SUBSET Markers]
    /\ importance = NoImportance
    /\ critical = NoCritical
    /\ summary = NoSummary
    /\ validation = NoValidation

NextScore ==
    \/ AnalyzeCall
    \/ \E marker \in Markers : AnalyzeWith(marker)

SpecScore == InitScore /\ [][NextScore]_vars

\* SpecExtract: extractCriticalContext on conversations of up to MaxScan
\* messages, next to a store operation
InitExtract ==
    /\ now = 0
    /\ Constructed(TRUE, "code")
    /\ \E msgs \in SeqsUpTo(ExtractObjs, MaxScan) : NoTruncation(msgs, "manager")

NextExtract ==
    \/ ExtractCall
    \/ Counted(recordPattern("component-pattern"))
    \/ WriteSucceeds

SpecExtract == InitExtract /\ [][NextExtract]_vars

\* SpecModes: the recording operations under every mode, enabled
InitModes ==
    /\ now = 0
    /\ \E mode \in Modes : Constructed(TRUE, mode)
    /\ NoTruncation(TestMessages, "manager")

NextModes ==
    \/ \E command \in CommandInputs : Counted(addCommandToHistory(command))
    \/ \E pattern \in PatternInputs : Counted(recordPattern(pattern))
    \/ \E i \in 1..Len(MistakeSeq) :
          Counted(recordMistake(MistakeSeq[i][1], MistakeSeq[i][2]))
    \/ \E mode \in Modes : Counted(setMode(mode))
    \/ WriteSucceeds

SpecModes == InitModes /\ [][NextModes]_vars

\* SpecRead: the mutating operations of an enabled store, with readers that
\* run at any moment; at most MaxOps calls in a run
InitRead ==
    /\ now \in AfterConstruction
    /\ Constructed(TRUE, "code")
    /\ NoTruncation(TestMessages, "manager")

NextRead ==
    \/ Counted(initializeTaskContext("test-task", "test scope"))
    \/ Counted(updateTaskProgress("in_progress", Given(<<"step 1">>), Given(<<"step 2">>)))
    \/ \E i \in 1..2 : Counted(updateTechnicalContext(TechnicalInputs[i]))
    \/ Counted(updateUserPreferences(PreferenceInputs[1]))
    \/ \E command \in CommandInputs : Counted(addCommandToHistory(command))
    \/ \E pattern \in PatternInputs : Counted(recordPattern(pattern))
    \/ Counted(recordMistake("syntax", "missing brace"))
    \/ Counted(readContext)
    \/ Counted(getContextSummary)
    \/ WriteSucceeds
    \/ WriteFails

SpecRead == InitRead /\ [][NextRead]_vars

\* SpecEvict: a caller that goes on recording each pattern for as long as
\* its count is below MaxOcc, on an enabled store in any mode, with a store
\* that completes every write
InitEvict ==
    /\ now = 0
    /\ \E mode \in Modes : Constructed(TRUE, mode)
    /\ NoTruncation(TestMessages, "manager")

NextEvict ==
    \/ \E pattern \in PatternInputs : Free(recordPattern(pattern))
    \/ WriteSucceeds

SpecEvict ==
    /\ InitEvict
    /\ [][NextEvict]_vars
    /\ \A pattern \in PatternInputs : SF_vars(Free(recordPattern(pattern)))
    /\ WF_vars(WriteSucceeds)

\* SpecValidate: the three validators called on the contexts the task and
\* technical operations produce, as time passes; at most MaxOps operations
InitValidate ==
    /\ now \in AfterConstruction
    /\ Constructed(TRUE, "code")
    /\ NoTruncation(TestMessages, "manager")

NextValidate ==
    \/ \E id \in TaskIdInputs, scope \in ScopeInputs :
          Counted(initializeTaskContext(id, scope))
    \/ \E stage \in StageInputs, completed \in {Omitted, Given(<<"step 1">>)},
          pend \in {Omitted, Given(<<"step 2">>)} :
          Counted(updateTaskProgress(stage, completed, pend))
    \/ \E i \in 2..3 : Counted(updateTechnicalContext(TechnicalInputs[i]))
    \/ \E validator \in ValidatorNames : Free(ValidateCall(validator))
    \/ WriteSucceeds
    \/ Tick

SpecValidate == InitValidate /\ [][NextValidate]_vars

-----------------------------------------------------------------------------
(* Claims about truncateHalfConversation (checked under SpecTrunc) *)

ScoreAt(i) == analyzeMessageImportance(Heap[messages[i]])
Ceil2(n) == IF n % 2 = 0 THEN n \div 2 ELSE (n \div 2) + 1

\* C1: after truncateHalfConversation returns, the first element of its result
\* is the first message of the input, whatever the other messages score and
\* with or without a context manager.
C1_AnchorFirst ==
    pc = "done" => (Len(truncated) >= 1 /\ truncated[1] = messages[1])

\* a call with a manager whose first message is outscored by a later one
C1_Witness ==
    /\ pc = "done"
    /\ mgr = "manager"
    /\ \E i \in 2..Len(messages) : ScoreAt(i) > ScoreAt(1)
    /\ truncated[1] = messages[1]

\* C2 (as claimed): the result is a subsequence of the input, also when the
\* input holds the same message at several positions.
C2_Subsequence ==
    pc = "done" => IsSubseq(truncated, messages)

\* C3: the result holds exactly ceil(n/2) of the n >= 1 input messages; a
\* single message is returned as it is, and of two messages only the first.
C3_Length ==
    pc = "done" =>
        /\ Len(truncated) = Ceil2(Len(messages))
        /\ Len(truncated) <= Len(messages)
        /\ Len(messages) = 1 => truncated = messages
        /\ Len(messages) = 2 => truncated = <<messages[1]>>

\* a two-message conversation, of which only the anchor is returned
C3_Witness ==
    /\ pc = "done"
    /\ Len(messages) = 2
    /\ truncated = <<messages[1]>>

\* C4: the retained non-anchor messages are those at the top ceil(n/2) - 1
\* positions by score descending, ties broken by position: every dropped
\* non-anchor position scores lower than every kept one, or scores the same
\* and comes later; and the result's tail is made of the kept positions'
\* messages.
C4_TopRanked ==
    pc = "done" =>
        LET n == Len(messages)
            K == Range(keptPos)
            D == (2..n) \ K
        IN  /\ K \subseteq 2..n
            /\ Cardinality(K) = Len(keptPos)
            /\ Cardinality(K) = Ceil2(n) - 1
            /\ \A k \in K, d \in D :
                  \/ ScoreAt(d) < ScoreAt(k)
                  \/ ScoreAt(d) = ScoreAt(k) /\ k < d
            /\ \A o \in Range(messages) :
                  Count(Tail(truncated), o) = Cardinality({k \in K : messages[k] = o})

\* a call that drops a lower-scoring message and breaks a tie between two
\* different messages of one score in favour of the earlier
C4_Witness ==
    /\ pc = "done"
    /\ \E k \in Range(keptPos), d \in (2..Len(messages)) \ Range(keptPos) :
          /\ ScoreAt(d) = ScoreAt(k)
          /\ messages[d] # messages[k]
          /\ k < d
    /\ \E k \in Range(keptPos), d \in (2..Len(messages)) \ Range(keptPos) :
          ScoreAt(d) < ScoreAt(k)

-----------------------------------------------------------------------------
(* Claims about the store *)

commonPatterns == context.user.history.commonPatterns
recentCommands == context.user.history.recentCommands

RecordingOps == {"addCommandToHistory", "recordPattern", "recordMistake"}
StoreOps == {"initializeTaskContext", "updateTaskProgress", "updateTechnicalContext",
             "updateUserPreferences", "addCommandToHistory", "recordPattern",
             "recordMistake", "setMode", "updateSettings"}

\* C5 (as claimed, checked under Spec): in every reachable state the length
\* of commonPatterns is at most the maxPatterns bound of the active mode.
C5_PatternsWithinBound ==
    ~Exceeds(Len(commonPatterns), getModeSettings(config).maxPatterns)

\* C6 (as claimed, checked under Spec): no two entries of commonPatterns hold
\* the same string, every entry has occurrences >= 1, and two recordPattern
\* calls in a row with a string the list did not hold, on an enabled store,
\* leave exactly one entry of that string, with occurrences 2.
C6_RecordTwice ==
    /\ \A i, j \in 1..Len(commonPatterns) :
          commonPatterns[i].pattern = commonPatterns[j].pattern => i = j
    /\ \A i \in 1..Len(commonPatterns) : commonPatterns[i].occurrences >= 1
    /\ (recRun.n = 2 /\ recRun.fresh) =>
          /\ Cardinality({i \in 1..Len(commonPatterns) :
                             commonPatterns[i].pattern = recRun.pattern}) = 1
          /\ Occurrences(commonPatterns, recRun.pattern) = 2

\* C7 (checked under SpecHistory): while the store has been enabled and the
\* maxHistoryItems in force has been one value N >= 1 since construction,
\* after k calls of addCommandToHistory recentCommands holds the last
\* min(k, N) commands, latest first.
C7_RecentCommands ==
    (fixedBound /\ getModeSettings(config).maxHistoryItems >= 1) =>
        LET N == getModeSettings(config).maxHistoryItems
            k == Len(cmdLog)
        IN  /\ Len(recentCommands) = IF k < N THEN k ELSE N
            /\ \A i \in 1..Len(recentCommands) :
                  recentCommands[i].command = cmdLog[i]

\* N + 5 calls, not all of one command, have left exactly N entries
C7_Witness ==
    /\ fixedBound
    /\ Len(cmdLog) = getModeSettings(config).maxHistoryItems + 5
    /\ Len(recentCommands) = getModeSettings(config).maxHistoryItems
    /\ Cardinality(Range(cmdLog)) = 2
    /\ recentCommands[1].command = cmdLog[1]

\* C8 (as claimed, checked under SpecAlias): what a caller does to the value
\* getContext returned never changes the store's state, and no operation of
\* the store changes a value getContext returned before.
C8_GetContextIsolated ==
    [][/\ lastOp' \in {"callerPushPattern", "callerEditProgress"}
          => context' = context
       /\ (snap.taken /\ lastOp' \in StoreOps) => SnapValue' = SnapValue]_vars

\* C9 (checked under Spec): a call of addCommandToHistory, recordPattern or
\* recordMistake made while enabled is false leaves the ContextMemory as it
\* was, issues no write to the external store and returns normally.
C9_DisabledNoOp ==
    [][(lastOp' \in RecordingOps /\ ~config.enabled) =>
          /\ context' = context
          /\ pending' = pending
          /\ store' = store
          /\ writes' = <<>>
          /\ call'.state = "resolved"]_vars

\* a recording call returned on a disabled store that holds a command
C9_Witness ==
    /\ lastOp \in RecordingOps
    /\ ~config.enabled
    /\ call.state = "resolved"
    /\ writes = <<>>
    /\ recentCommands # <<>>

\* the key each operation persists under
KeyOf(op) ==
    CASE op \in {"initializeTaskContext", "updateTaskProgress"} -> "taskContext"
      [] op = "updateTechnicalContext" -> "technicalContext"
      [] op = "updateUserPreferences" -> "userPreferences"
      [] op = "addCommandToHistory" -> "commandHistory"
      [] op = "recordPattern" -> "patternHistory"
      [] op = "recordMistake" -> "mistakeHistory"
      [] op \in {"setMode", "updateSettings"} -> "contextSettings"

\* the in-memory object persisted under a key
SubObject(key) ==
    CASE key = "taskContext" -> context.task
      [] key = "technicalContext" -> context.technical
      [] key = "userPreferences" -> context.user.preferences
      [] key = "commandHistory" -> context.user.history.recentCommands
      [] key = "patternHistory" -> context.user.history.commonPatterns
      [] key = "mistakeHistory" -> context.user.history.mistakes
      [] key = "contextSettings" -> [enabled |-> config.enabled,
                                     modeSettings |-> config.modeSettings]

\* C10 (checked under Spec): when an awaited operation's write has succeeded
\* and its caller is resumed, the external store holds under the operation's
\* key the current in-memory sub-object; and an operation issues writes under
\* no other key than its own.
C10_WriteThrough ==
    /\ (lastOp = "resume" /\ call.state = "resolved") =>
          /\ KeyOf(call.op) \in DOMAIN store
          /\ store[KeyOf(call.op)] = SubObject(KeyOf(call.op))
    /\ call.op \in StoreOps => \A i \in 1..Len(writes) : writes[i] = KeyOf(call.op)

\* recordMistake has completed a second time: the store holds both mistakes
C10_Witness ==
    /\ lastOp = "resume"
    /\ call = [op |-> "recordMistake", state |-> "resolved"]
    /\ Len(context.user.history.mistakes) = 2
    /\ store["mistakeHistory"] = context.user.history.mistakes

\* the writes a suspended caller is waiting for
Awaited(p) == {i \in 1..Len(p) : p[i].awaited}

\* C11 (checked under Spec): when the write a caller awaits completes, the
\* operation had issued exactly that one write and issues no other (no
\* retry), the in-memory state stays as the operation left it (no rollback),
\* and either the value is stored and the caller resumes normally, or the
\* store is left as it was and the caller gets the failure.
C11_FailurePropagates ==
    [][(call.state = "pending" /\ call'.state # "pending") =>
          /\ Cardinality(Awaited(pending)) = 1
          /\ \A i \in Awaited(pending) :
                /\ writes = <<pending[i].key>>
                /\ \/ /\ call'.state = "resolved"
                      /\ store' = (pending[i].key :> pending[i].value) @@ store
                   \/ /\ call'.state = "rejected"
                      /\ store' = store
          /\ Awaited(pending') = {}
          /\ Len(pending') = Len(pending) - 1
          /\ writes' = writes
          /\ context' = context
          /\ config' = config]_vars

\* recordPattern's write has failed: the caller got the failure, the pattern
\* is in memory and the store holds no patternHistory
C11_Witness ==
    /\ lastOp = "resume"
    /\ call = [op |-> "recordPattern", state |-> "rejected"]
    /\ Len(commonPatterns) = 1
    /\ commonPatterns[1].occurrences = 1
    /\ "patternHistory" \notin DOMAIN store
    /\ Awaited(pending) = {}
    /\ writes = <<"patternHistory">>

\* the strings the tag expression matches in the non-anchor messages that
\* score 5 or more
ThresholdPatterns ==
    UNION {Range(Heap[messages[i]].patterns) :
              i \in {j \in 2..Len(messages) : ScoreAt(j) >= 5}}

RecordedPatterns == {commonPatterns[i].pattern : i \in 1..Len(commonPatterns)}

\* C12 (checked under SpecTrunc): after truncateHalfConversation has run
\* with an enabled context manager, recordPattern has been called once for
\* each string extracted from a non-anchor message scoring 5 or more, kept
\* in the result or not, and for no other string.
C12_RecordedPatterns ==
    (pc = "done" /\ mgr = "manager" /\ config.enabled) =>
        /\ RecordedPatterns = ThresholdPatterns
        /\ Len(commonPatterns) = Cardinality(ThresholdPatterns)
        /\ \A i \in 1..Len(commonPatterns) : commonPatterns[i].occurrences = 1
        /\ Len(writes) = Cardinality(ThresholdPatterns)
        /\ \A i \in 1..Len(writes) : writes[i] = "patternHistory"

\* a message scoring 5 that the result drops has its pattern recorded, and a
\* message scoring 0 has a pattern that is not recorded
C12_Witness ==
    /\ pc = "done"
    /\ mgr = "manager"
    /\ config.enabled
    /\ \E i \in 2..Len(messages) :
          /\ ScoreAt(i) >= 5
          /\ messages[i] \notin Range(truncated)
          /\ Heap[messages[i]].patterns # <<>>
          /\ Range(Heap[messages[i]].patterns) \subseteq RecordedPatterns
    /\ \E j \in 2..Len(messages) :
          /\ ScoreAt(j) < 5
          /\ Heap[messages[j]].patterns # <<>>
          /\ Range(Heap[messages[j]].patterns) \cap RecordedPatterns = {}

\* the scores of the six positions of the current conversation
Scores == [i \in 1..Len(messages) |-> ScoreAt(i)]

\* C13 (checked under SpecTrunc): for the six alternating messages in which
\* message 1 holds the task and environment markers, message 2 a thinking
\* block, message 4 (assistant) a tool marker and message 5 (user) a
\* feedback marker, the scores are 18, 5, 0, 6, 7, 0 and
\* truncateHalfConversation returns exactly three messages: message 1, then
\* the tool message (message 4) and the feedback message (message 5).
C13_TestConversation ==
    (pc = "done" /\ messages = ToolMessages) =>
        /\ Scores = <<18, 5, 0, 6, 7, 0>>
        /\ Len(truncated) = 3
        /\ truncated = <<ToolMessages[1], ToolMessages[4], ToolMessages[5]>>

\* the call on that conversation has returned: the feedback message and the
\* tool message were ranked first and second, the thinking message was
\* dropped
C13_Witness ==
    /\ pc = "done"
    /\ messages = ToolMessages
    /\ Heap[ToolMessages[4]].role = "assistant"
    /\ keptPos = <<5, 4>>
    /\ ToolMessages[2] \notin Range(truncated)

RolesOf(msgs) == [i \in 1..Len(msgs) |-> Heap[msgs[i]].role]

\* no two adjacent messages have the same role
Alternates(msgs) ==
    \A i \in 1..(Len(msgs) - 1) : Heap[msgs[i]].role # Heap[msgs[i + 1]].role

\* C14 (as claimed, checked under SpecTrunc): when the roles of the input
\* strictly alternate, no two adjacent messages of the result have the same
\* role.
C14_Alternation ==
    (pc = "done" /\ Alternates(messages)) => Alternates(truncated)

\* C14 (amended): on the conversation of createTestMessages, and on the same
\* conversation with a fourth message holding "<tool_", the result's roles
\* alternate: user, assistant, user.
C14_TestAlternation ==
    (pc = "done" /\ messages \in {TestMessages, ToolMessages}) =>
        /\ Alternates(messages)
        /\ Alternates(truncated)
        /\ RolesOf(truncated) = <<"user", "assistant", "user">>

\* the call on createTestMessages has returned the thinking message between
\* two user messages
C14_Witness ==
    /\ pc = "done"
    /\ messages = TestMessages
    /\ Len(truncated) = 3
    /\ Heap[truncated[2]].role = "assistant"
    /\ Heap[truncated[1]].role = Heap[truncated[3]].role

-----------------------------------------------------------------------------
(* Claims about the task operations and the validators *)

\* validateContextCompleteness(getContext()), called now
Completeness == validateContextCompleteness(context, now)

\* C15 (checked under SpecTask): on a freshly constructed manager
\* validateContextCompleteness returns isValid false with at least one
\* missing field; once a task has a non-empty id and scope, an
\* updateTechnicalContext that leaves a non-empty root makes it return
\* isValid true with no missing field; and from then on every step other
\* than an initializeTaskContext or an updateTechnicalContext keeps it so.
C15_Completeness ==
    [][/\ lastOp = "constructor" =>
             /\ ~Completeness.isValid
             /\ Len(Completeness.missingFields) >= 1
       /\ (/\ lastOp' = "updateTechnicalContext"
           /\ context.task.id # "" /\ context.task.scope # ""
           /\ context'.technical.projectStructure.root # "") =>
             /\ Completeness'.isValid
             /\ Completeness'.missingFields = <<>>
       /\ (/\ Completeness.isValid
           /\ lastOp' \notin {"initializeTaskContext", "updateTechnicalContext"}) =>
             /\ Completeness'.isValid
             /\ Completeness'.missingFields = <<>>]_vars

\* a task was initialized and given a root, half an hour passed and
\* updateTaskProgress ran: the context is complete, with a warning
C15_Witness ==
    /\ call.op = "updateTaskProgress"
    /\ context.task.id = "test-task"
    /\ context.technical.projectStructure.root = "/test/project"
    /\ now > context.task.startTime
    /\ Completeness.isValid
    /\ Completeness.missingFields = <<>>
    /\ Len(Completeness.warnings) >= 1

\* C16 (as claimed, checked under SpecTask): initializeTaskContext(id,
\* scope) leaves a task with that id and scope, stage "initializing", empty
\* completed and pending lists and startTime equal to lastUpdateTime, both
\* the time of the call, whatever the task was before, and leaves technical,
\* the preferences and the three history lists as they were.
C16_TaskReplaced ==
    [][\A id \in TaskIdInputs, scope \in ScopeInputs :
          initializeTaskContext(id, scope) =>
              /\ context'.task =
                    [id |-> id, scope |-> scope, stage |-> "initializing",
                     progress |-> [completed |-> <<>>, pending |-> <<>>],
                     startTime |-> now, lastUpdateTime |-> now]
              /\ context'.technical = context.technical
              /\ context'.user.preferences = context.user.preferences
              /\ context'.user.history = context.user.history]_vars

\* C17 (checked under SpecTask): updateTaskProgress(stage, completed?,
\* pending?) sets the stage to the given one, replaces the completed list
\* (the pending list) by the given list when one is given, an empty one
\* included, and keeps it when the argument is omitted, sets lastUpdateTime
\* to the current time and leaves id, scope and startTime as they were.
C17_ProgressUpdated ==
    [][\A stage \in StageInputs, completed \in StepInputs, pend \in PendingInputs :
          updateTaskProgress(stage, completed, pend) =>
              /\ context'.task.stage = stage
              /\ completed.given =>
                    context'.task.progress.completed = completed.value
              /\ ~completed.given =>
                    context'.task.progress.completed = context.task.progress.completed
              /\ pend.given => context'.task.progress.pending = pend.value
              /\ ~pend.given =>
                    context'.task.progress.pending = context.task.progress.pending
              /\ context'.task.lastUpdateTime = now
              /\ context'.task.id = context.task.id
              /\ context'.task.scope = context.task.scope
              /\ context'.task.startTime = context.task.startTime]_vars

\* an updateTaskProgress given an empty completed list and no pending list
\* has emptied the completed list and kept the pending one; the store still
\* holds the earlier task
C17_Witness ==
    /\ call = [op |-> "updateTaskProgress", state |-> "pending"]
    /\ "taskContext" \in DOMAIN store
    /\ store["taskContext"].progress.completed # <<>>
    /\ store["taskContext"].progress.pending # <<>>
    /\ context.task.progress.completed = <<>>
    /\ context.task.progress.pending = store["taskContext"].progress.pending
    /\ context.task.id = "test-task"
    /\ context.task.lastUpdateTime = now
    /\ context.task.startTime < now

-----------------------------------------------------------------------------
(* Claims about the mode settings *)

\* a list of length n after one more entry under the bound max
LenAfterOne(n, max) == IF Exceeds(n + 1, max) THEN n ELSE n + 1

\* C18 (as claimed, checked under SpecModes): each recording operation
\* applies the bound of the current mode's entry of modeSettings when the
\* table has one and the scalar bound when it has none; and after
\* setMode(m) getSettings() reports m as the current mode and the bounds in
\* force are those m resolves to in that way.
C18_ModeBounds ==
    [][LET Claimed(mode, field) ==
               IF mode \in DOMAIN config.modeSettings
               THEN config.modeSettings[mode][field]
               ELSE config[field]
       IN  /\ \A command \in CommandInputs :
                 addCommandToHistory(command) =>
                     Len(recentCommands') =
                         LenAfterOne(Len(recentCommands),
                                     Claimed(config.currentMode, "maxHistoryItems"))
           /\ \A i \in 1..Len(MistakeSeq) :
                 recordMistake(MistakeSeq[i][1], MistakeSeq[i][2]) =>
                     Len(context'.user.history.mistakes) =
                         LenAfterOne(Len(context.user.history.mistakes),
                                     Claimed(config.currentMode, "maxMistakes"))
           /\ \A pattern \in PatternInputs :
                 recordPattern(pattern) =>
                     Len(commonPatterns') =
                         IF Occurrences(commonPatterns, pattern) > 0
                         THEN Len(commonPatterns)
                         ELSE LenAfterOne(Len(commonPatterns),
                                          Claimed(config.currentMode, "maxPatterns"))
           /\ \A mode \in Modes :
                 setMode(mode) =>
                     /\ getSettings(config').currentMode = mode
                     /\ \A field \in {"maxHistoryItems", "maxPatterns", "maxMistakes"} :
                           getModeSettings(config')[field] = Claimed(mode, field)]_vars

-----------------------------------------------------------------------------
(* Claims about the scoring and the extraction *)

Signals == {"task", "environment", "thinking", "tool", "feedback", "error"}

SignalWeight(signal) ==
    CASE signal = "task" -> 10
      [] signal = "environment" -> 8
      [] signal = "thinking" -> 5
      [] signal = "tool" -> 6
      [] signal = "feedback" -> 7
      [] signal = "error" -> 4

Matches(signal, message) ==
    CASE signal = "task" -> "<task>" \in message.marks
      [] signal = "environment" -> "environment_details" \in message.marks
      [] signal = "thinking" -> "<thinking>" \in message.marks
      [] signal = "tool" -> message.role = "assistant" /\ "<tool_" \in message.marks
      [] signal = "feedback" -> message.role = "user" /\ "<feedback>" \in message.marks
      [] signal = "error" -> {"<error>", "error:"} \cap message.marks # {}

\* the sum of the weights of a set of signals, each once
RECURSIVE SumWeights(_)
SumWeights(S) ==
    IF S = {} THEN 0
    ELSE LET x == CHOOSE y \in S : TRUE
         IN  SignalWeight(x) + SumWeights(S \ {x})

\* C19 (checked under SpecScore): the score of a message is the sum of the
\* weights of the signals it matches, each signal once (tool only for an
\* assistant, feedback only for a user, error once for either of its two
\* markers); and the same message with one more marker never scores less.
C19_AdditiveScore ==
    [][/\ importance'.done =>
             importance'.score =
                 SumWeights({signal \in Signals : Matches(signal, probe')})
       /\ (importance.done /\ importance'.done /\ probe.marks \subseteq probe'.marks) =>
             importance'.score >= importance.score]_vars

\* a message with the task marker and both error markers scores 14
C19_Witness ==
    /\ importance.done
    /\ probe.marks = {"<task>", "<error>", "error:"}
    /\ importance.score = 14

\* position of the first occurrence of x in list
FirstIndex(list, x) == Min({i \in 1..Len(list) : list[i] = x})

\* result lists the strings of found once each, in the order of their first
\* occurrences
FirstSeenOrder(result, found) ==
    /\ Range(result) = Range(found)
    /\ \A i, j \in 1..Len(result) : result[i] = result[j] => i = j
    /\ \A i, j \in 1..Len(result) :
          i < j => FirstIndex(found, result[i]) < FirstIndex(found, result[j])

\* C20 (checked under SpecExtract): the patterns and technicalDetails that
\* extractCriticalContext returns hold no string twice and list the strings
\* extracted from all the messages, the first and the unscored ones
\* included, in the order of their first occurrences; and the call changes
\* nothing of the store and issues no write.
C20_Extraction ==
    [][lastOp' = "extractCriticalContext" =>
          /\ critical'.done
          /\ FirstSeenOrder(critical'.patterns, AllMatches(messages, "patterns"))
          /\ FirstSeenOrder(critical'.technicalDetails, AllMatches(messages, "technical"))
          /\ context' = context
          /\ store' = store
          /\ pending' = pending
          /\ writes' = writes
          /\ call' = call]_vars

\* a conversation that starts with the task message and holds the message
\* with the same pattern twice: the result lists that pattern once, after
\* the two patterns of the first message
C20_Witness ==
    /\ critical.done
    /\ messages[1] = 1
    /\ 8 \in Range(messages)
    /\ Len(critical.patterns) < Len(AllMatches(messages, "patterns"))
    /\ SubSeq(critical.patterns, 1, 2) = Heap[1].patterns
    /\ Count(critical.patterns, "<pattern>test</pattern>") = 1
    /\ Count(critical.technicalDetails, "/pattern") = 1

-----------------------------------------------------------------------------
(* Claims about the order of the in-memory update and the write *)

MutatingOps == {"initializeTaskContext", "updateTaskProgress", "updateTechnicalContext",
                "updateUserPreferences", "addCommandToHistory", "recordPattern",
                "recordMistake"}

\* C21 (checked under SpecRead): a mutating operation on an enabled store
\* hands to the persistence call the in-memory object it has already
\* updated, and suspends its caller; a getContext or getContextSummary that
\* runs while that write is pending returns the in-memory values, which are
\* the ones being written, and completes no write; and the caller leaves its
\* await only by the step that completes the write it awaits.
C21_MemoryFirst ==
    [][/\ \A op \in MutatingOps :
             lastOp' = op =>
                 /\ call' = [op |-> op, state |-> "pending"]
                 /\ pending' = Append(pending, [key |-> KeyOf(op),
                                                value |-> SubObject(KeyOf(op))',
                                                awaited |-> TRUE])
       /\ (call.state = "pending" /\ lastOp' \in {"getContext", "getContextSummary"}) =>
             /\ \A i \in Awaited(pending) : pending[i].value = SubObject(pending[i].key)
             /\ lastOp' = "getContextSummary" =>
                   summary'.value = ContextSummary(context, config)
             /\ lastOp' = "getContext" =>
                   /\ snap'.task = context.task
                   /\ snap'.technical = context.technical
             /\ call' = call
             /\ pending' = pending
             /\ store' = store
       /\ (call.state = "pending" /\ call'.state # "pending") =>
             /\ lastOp' = "resume"
             /\ \E i \in Awaited(pending) :
                   pending' = SubSeq(pending, 1, i - 1)
                              \o SubSeq(pending, i + 1, Len(pending))
       /\ call'.state = "pending" => Awaited(pending') # {}]_vars

\* getContextSummary has run while the write of initializeTaskContext is
\* pending: it shows the new scope and stage, and the store holds no task
C21_Witness ==
    /\ lastOp = "getContextSummary"
    /\ call = [op |-> "initializeTaskContext", state |-> "pending"]
    /\ Awaited(pending) # {}
    /\ summary.value.scope = "test scope"
    /\ summary.value.stage = "initializing"
    /\ "taskContext" \notin DOMAIN store

-----------------------------------------------------------------------------
(* Claims about the ranking of commonPatterns *)

Resident(pattern) == Occurrences(commonPatterns, pattern) > 0
AtCapacity == Len(commonPatterns) = getModeSettings(config).maxPatterns

\* C22 (as claimed, checked under SpecEvict): when the list is at its
\* maxPatterns capacity under a fixed bound and holds an entry seen once, a
\* pattern that is not in the list and is recorded again and again becomes
\* resident, an entry of the list making room for it.
C22_FrequentEvicts ==
    \A q \in PatternInputs :
        (/\ AtCapacity
         /\ ~Resident(q)
         /\ \E i \in 1..Len(commonPatterns) : commonPatterns[i].occurrences = 1)
        ~> Resident(q)

\* position of a pattern in a list; one past the end when it is not there
PosIn(cp, pattern) ==
    LET found == {i \in 1..Len(cp) : cp[i].pattern = pattern}
    IN  IF found = {} THEN Len(cp) + 1 ELSE Min(found)

PatternsOf(cp) == {cp[i].pattern : i \in 1..Len(cp)}

\* C23 (checked under SpecModes): after a recordPattern call on an enabled
\* store the list is ordered by occurrences, non-increasing; two entries
\* with equal occurrences stand in the order they had before the call, a
\* newly inserted pattern counting as last; the recorded pattern's count is
\* one more than before and no other count changes; and at most one entry
\* is dropped, which no kept entry has fewer occurrences than, and which
\* every kept entry of equal occurrences stood before.
C23_RankedOrder ==
    [][\A pattern \in PatternInputs :
          recordPattern(pattern) =>
              LET old == commonPatterns
                  new == commonPatterns'
                  Counted1(q) == Occurrences(old, q) + (IF q = pattern THEN 1 ELSE 0)
                  dropped == (PatternsOf(old) \cup {pattern}) \ PatternsOf(new)
              IN  /\ \A i \in 1..(Len(new) - 1) :
                        new[i].occurrences >= new[i + 1].occurrences
                  /\ \A i, j \in 1..Len(new) :
                        (i < j /\ new[i].occurrences = new[j].occurrences) =>
                            PosIn(old, new[i].pattern) < PosIn(old, new[j].pattern)
                  /\ \A i \in 1..Len(new) : new[i].occurrences = Counted1(new[i].pattern)
                  /\ PatternsOf(new) \subseteq PatternsOf(old) \cup {pattern}
                  /\ Cardinality(dropped) <= 1
                  /\ Len(new) = Cardinality(PatternsOf(new))
                  /\ \A d \in dropped, i \in 1..Len(new) :
                        \/ new[i].occurrences > Counted1(d)
                        \/ /\ new[i].occurrences = Counted1(d)
                           /\ PosIn(old, new[i].pattern) < PosIn(old, d)]_vars

\* a third pattern was recorded on a list of two patterns seen once, at
\* capacity: it came last and was dropped, the two stand in their order
C23_Witness ==
    /\ call = [op |-> "recordPattern", state |-> "pending"]
    /\ recRun.n = 1
    /\ recRun.fresh
    /\ ~Resident(recRun.pattern)
    /\ AtCapacity
    /\ Len(commonPatterns) = 2
    /\ commonPatterns[1].occurrences = 1
    /\ commonPatterns[2].occurrences = 1
    /\ "patternHistory" \in DOMAIN store
    /\ store["patternHistory"] = commonPatterns

-----------------------------------------------------------------------------
(* Claims about the command and mistake histories *)

mistakes == context.user.history.mistakes

\* C24 (as claimed, checked under Spec): in every reachable state, under any
\* interleaving of addCommandToHistory, recordMistake, setMode and
\* updateSettings, recentCommands is no longer than the active
\* maxHistoryItems and mistakes no longer than the active maxMistakes, both
\* lists most recent first.
C24_HistoriesWithinBounds ==
    /\ ~Exceeds(Len(recentCommands), getModeSettings(config).maxHistoryItems)
    /\ ~Exceeds(Len(mistakes), getModeSettings(config).maxMistakes)
    /\ \A i, j \in 1..Len(recentCommands) :
          i < j => recentCommands[i].timestamp >= recentCommands[j].timestamp
    /\ \A i, j \in 1..Len(mistakes) :
          i < j => mistakes[i].timestamp >= mistakes[j].timestamp

-----------------------------------------------------------------------------
(* Claims about validateForToolUse and the three validators together *)

StaleWarning == "Context may be stale (no updates in last 30 minutes)"
NoPendingWarning == "No pending tasks defined - tool use may lack proper context"

\* C25 (checked under SpecValidate): validateForToolUse returns isValid
\* true exactly when task.id, task.scope, task.stage and
\* technical.projectStructure.root are all non-empty; missingFields lists
\* the empty ones among them, each once; the two warnings are given exactly
\* when the pending list is empty and when lastUpdateTime is more than 30
\* minutes old, whatever isValid is; and the call changes nothing of the
\* context it is given, of the store or of the writes.
C25_ToolUse ==
    [][lastOp' = "validateForToolUse" =>
          LET r == validation'.result
              empty == {f \in Range(ToolUseFields) : FieldValue(context, f) = ""}
          IN  /\ validation'.validator = "validateForToolUse"
              /\ r.isValid <=> (/\ context.task.id # ""
                                /\ context.task.scope # ""
                                /\ context.task.stage # ""
                                /\ context.technical.projectStructure.root # "")
              /\ Range(r.missingFields) = empty
              /\ Len(r.missingFields) = Cardinality(empty)
              /\ Range(r.warnings) \subseteq {StaleWarning, NoPendingWarning}
              /\ NoPendingWarning \in Range(r.warnings)
                    <=> Len(context.task.progress.pending) = 0
              /\ StaleWarning \in Range(r.warnings)
                    <=> now - context.task.lastUpdateTime > StaleAfter
              /\ context' = context
              /\ snap' = snap
              /\ store' = store
              /\ pending' = pending
              /\ writes' = writes]_vars

\* validateForToolUse has returned isValid true with both warnings
C25_Witness ==
    /\ lastOp = "validateForToolUse"
    /\ validation.result.isValid
    /\ validation.result.missingFields = <<>>
    /\ validation.result.warnings = <<NoPendingWarning, StaleWarning>>
    /\ context.task.id = "test-task"
    /\ context.technical.projectStructure.root = "/test/project"

\* C28 (as claimed, checked under SpecValidate): on every context, at any
\* time, validateForToolUse returning isValid implies the same of
\* validateContextCompleteness, which implies the same of
\* validateForCompletion; and validateForToolUse gives its staleness warning
\* exactly when validateContextCompleteness gives its own.
C28_ValidatorsOrdered ==
    LET toolUse == validateForToolUse(context, now)
        completeness == validateContextCompleteness(context, now)
        completion == validateForCompletion(context)
    IN  /\ toolUse.isValid => completeness.isValid
        /\ completeness.isValid => completion.isValid
        /\ StaleWarning \in Range(toolUse.warnings)
              <=> StaleWarning \in Range(completeness.warnings)

-----------------------------------------------------------------------------
(* Claims about the recordPattern calls of truncateHalfConversation *)

\* the list after recordPattern calls made one after the other, each one
\* finished before the next starts
RECURSIVE ApplyInOrder(_, _, _)
ApplyInOrder(cp, ps, max) ==
    IF ps = <<>> THEN cp
    ELSE ApplyInOrder(recordPatternMem(cp, Head(ps), max), Tail(ps), max)

\* C26 (checked under SpecTrunc): after truncateHalfConversation has made
\* its recordPattern calls without awaiting them, the in-memory list is the
\* one the same calls leave when made one after the other in the order they
\* were issued: each pattern once with occurrences 1, in that order, up to
\* maxPatterns; and it stays so while the writes complete or fail, in any
\* order.
C26_NoLostUpdate ==
    (pc = "done" /\ mgr = "manager" /\ config.enabled) =>
        LET ps == preservedPatterns(messages)
            max == getModeSettings(config).maxPatterns
        IN  /\ commonPatterns = ApplyInOrder(<<>>, ps, max)
            /\ Len(commonPatterns) = Min({Len(ps), max})
            /\ \A i \in 1..Len(commonPatterns) :
                  commonPatterns[i] = [pattern |-> ps[i], occurrences |-> 1]

\* two calls were issued and their writes have completed, the second one
\* first: the store holds the first write's value, the in-memory list both
\* patterns
C26_Witness ==
    /\ pc = "done"
    /\ mgr = "manager"
    /\ config.enabled
    /\ Len(writes) = 2
    /\ pending = <<>>
    /\ Len(commonPatterns) = 2
    /\ "patternHistory" \in DOMAIN store
    /\ Len(store["patternHistory"]) = 1

\* C27 (checked under SpecTrunc): a truncateHalfConversation call leaves the
\* conversation it was given as it was; and a call without a context
\* manager, or with a disabled one, leaves the ContextMemory and the store
\* as they were and issues no write.
C27_InputUnchanged ==
    [][lastOp' = "truncateHalfConversation" =>
          /\ messages' = messages
          /\ config' = config
          /\ (mgr = "none" \/ ~config.enabled) =>
                /\ context' = context
                /\ store' = store
                /\ pending' = pending
                /\ writes' = <<>>]_vars

\* a call with a disabled manager has dropped messages and recorded nothing,
\* though a message of the conversation scores 5 or more and holds a pattern
C27_Witness ==
    /\ pc = "done"
    /\ mgr = "manager"
    /\ ~config.enabled
    /\ ThresholdPatterns # {}
    /\ Len(truncated) < Len(messages)
    /\ commonPatterns = <<>>
    /\ pending = <<>>
    /\ writes = <<>>
    /\ store = <<>>

\* the place of a pattern in the order of the calls: the rank of the first
\* message, in score order, that scores 5 or more and holds it, then its
\* first position in that message
RankKey(msgs, pattern) ==
    LET ranked == sortedScores(msgs)
        holders == {k \in 1..Len(ranked) :
                       /\ ranked[k].score >= 5
                       /\ pattern \in Range(Heap[ranked[k].message].patterns)}
        k == Min(holders)
    IN  <<k, FirstIndex(Heap[ranked[k].message].patterns, pattern)>>

\* C29 (checked under SpecTrunc): one truncateHalfConversation call with an
\* enabled manager passes each distinct string to recordPattern once, also
\* when it occurs in several messages scoring 5 or more or several times in
\* one message: every such string ends with occurrences 1 and there is one
\* write per string; and the strings are recorded in the order of their
\* message's rank by score, not of the conversation.
C29_OncePerCall ==
    (pc = "done" /\ mgr = "manager" /\ config.enabled) =>
        /\ \A i \in 1..Len(commonPatterns) : commonPatterns[i].occurrences = 1
        /\ \A q \in ThresholdPatterns : Occurrences(commonPatterns, q) <= 1
        /\ Len(writes) = Cardinality(ThresholdPatterns)
        /\ \A i, j \in 1..Len(commonPatterns) :
              i < j =>
                  LET a == RankKey(messages, commonPatterns[i].pattern)
                      b == RankKey(messages, commonPatterns[j].pattern)
                  IN  a[1] < b[1] \/ (a[1] = b[1] /\ a[2] < b[2])

\* the thinking block occurs five times, in three messages that come before
\* and after the feedback message: it is recorded once, after the feedback
C29_Witness ==
    /\ pc = "done"
    /\ mgr = "manager"
    /\ config.enabled
    /\ messages = RepeatMessages
    /\ commonPatterns =
          <<[pattern |-> "<feedback>Looks good, but consider adding tests</feedback>",
             occurrences |-> 1],
            [pattern |-> "<thinking>Analyzing requirements</thinking>",
             occurrences |-> 1]>>
    /\ Len(writes) = 2

====
